---- MODULE Spec2Model ----
(***************************************************************************)
(* Model of ringparams_facts.py: one run of main(), from the lookup of the *)
(* ethtool executable to exit_json / fail_json.  Texts (interface names,   *)
(* stdout, stderr) are strings; the Python string methods the module uses  *)
(* are operators over them, computed character by character.               *)
(***************************************************************************)
EXTENDS Integers, Sequences, FiniteSets, TLC

(* ------------------------------ bounds --------------------------------- *)
\* longest interface list (explicit or discovered)
MaxIfs == 2
\* most lines ethtool prints for one interface, in a run over MaxIfs interfaces
MaxLines == 1
\* most lines ethtool prints for the interface, in a run over one interface
MaxScanLines == 4
\* most lines ethtool prints for one interface, in a run over two interfaces
MaxPairLines == 2

(* ------------------------- Python string methods ----------------------- *)
Char(s, i) == SubSeq(s, i, i)

Min(S) == CHOOSE m \in S : \A n \in S : m <= n
Max(S) == CHOOSE m \in S : \A n \in S : n <= m

\* characters str.strip() removes (those of them that occur in the model)
Whitespace == {" ", "\t", "\n", "\r"}

\* characters str.splitlines() breaks at (those that occur in the model)
LineBreaks == {"\n", "\r"}

\* str.strip(): without the whitespace it starts with and the whitespace
\* it ends with
strip(s) ==
    LET n     == Len(s)
        lead  == {i \in 1..n : \A j \in 1..i : Char(s, j) \in Whitespace}
        trail == {i \in 1..n : \A j \in i..n : Char(s, j) \in Whitespace}
    IN  IF Cardinality(lead) = n THEN ""
        ELSE SubSeq(s, Cardinality(lead) + 1, n - Cardinality(trail))

\* str.startswith(prefix)
startswith(s, prefix) ==
    /\ Len(s) >= Len(prefix)
    /\ SubSeq(s, 1, Len(prefix)) = prefix

\* str.splitlines(): "\r\n" is one break, no empty last line
RECURSIVE splitlines(_)
splitlines(s) ==
    IF s = "" THEN <<>>
    ELSE LET brk == {i \in 1..Len(s) : Char(s, i) \in LineBreaks}
         IN  IF brk = {} THEN <<s>>
             ELSE LET b == Min(brk)
                      w == IF /\ Char(s, b) = "\r"
                              /\ b < Len(s)
                              /\ Char(s, b + 1) = "\n"
                           THEN 2 ELSE 1
                  IN  <<SubSeq(s, 1, b - 1)>>
                          \o splitlines(SubSeq(s, b + w, Len(s)))

\* str.split(sep) for a one-character separator: every occurrence splits
RECURSIVE split(_, _)
split(s, sep) ==
    LET at == {i \in 1..Len(s) : Char(s, i) = sep}
    IN  IF at = {} THEN <<s>>
        ELSE <<SubSeq(s, 1, Min(at) - 1)>>
                 \o split(SubSeq(s, Min(at) + 1, Len(s)), sep)

\* a replacement of the first occurrence only
RECURSIVE replaceFirst(_, _, _)
replaceFirst(s, old, new) ==
    IF s = "" THEN ""
    ELSE IF Char(s, 1) = old THEN new \o SubSeq(s, 2, Len(s))
    ELSE Char(s, 1) \o replaceFirst(SubSeq(s, 2, Len(s)), old, new)

\* str.replace(old, new) for a one-character old
RECURSIVE replace(_, _, _)
replace(s, old, new) ==
    IF s = "" THEN ""
    ELSE (IF Char(s, 1) = old THEN new ELSE Char(s, 1))
             \o replace(SubSeq(s, 2, Len(s)), old, new)

\* characters shlex.quote() leaves unquoted
SafeText == "abcdefghijklmnopqrstuvwxyzABCDEFGHIJKLMNOPQRSTUVWXYZ0123456789_@%+=:,./-"
SafeChars == {Char(SafeText, i) : i \in 1..Len(SafeText)}

\* shlex.quote()
quote(s) ==
    IF s = "" THEN "''"
    ELSE IF \A i \in 1..Len(s) : Char(s, i) \in SafeChars THEN s
    ELSE "'" \o replace(s, "'", "'\"'\"'") \o "'"

\* an empty dict
EmptyDict == [k \in {} |-> ""]

\* d.setdefault(key, val): an entry that is there is kept
SetDefault(d, key, val) ==
    [k \in (DOMAIN d) \cup {key} |-> IF k \in DOMAIN d THEN d[k] ELSE val]

\* d[key] = val on a dict
SetItem(d, key, val) ==
    [k \in (DOMAIN d) \cup {key} |-> IF k = key THEN val ELSE d[k]]

(* ----------------------------- environment ----------------------------- *)
\* shutil.which() returning None
None == "<None>"

\* what shutil.which('ethtool') can return
WhichResults == {None, "/usr/sbin/ethtool"}

\* interface names (module parameter, and devices of the host)
Names == {"eno1", "lo"}

\* lines ethtool -g can print
LinePool ==
    { "Pre-set maximums:",
      "  Current hardware settings:\t",
      "RX:\t\t4096",
      " RX: 1:2 x",
      "TX: 512",
      "RX Mini:\t7" }

\* exit codes of a command
ExitCodes == {0, 1, 2}

\* stderr of a command with exit code r; a command that succeeds is taken
\* to print nothing there (main never reads stderr when rc is 0)
ErrTexts(r) == IF r = 0 THEN {""} ELSE {"no\ndev\n"}

\* the texts of exactly n lines of LinePool, each ended by a newline
RECURSIVE TextsOfLen(_)
TextsOfLen(n) ==
    IF n = 0 THEN {""}
    ELSE {l \o "\n" \o t : l \in LinePool, t \in TextsOfLen(n - 1)}

\* the stdout texts of at most n lines
Texts(n) == UNION {TextsOfLen(k) : k \in 0..n}

\* the sequences over S of length at most n
SeqsUpTo(S, n) == UNION {[1..k -> S] : k \in 0..n}

\* a device line of /proc/net/dev: the name right-aligned in 6 columns,
\* a colon, the counters
DevLine(name) ==
    LET pad == IF Len(name) >= 6 THEN "" ELSE SubSeq("      ", 1, 6 - Len(name))
    IN  pad \o name \o ": 0 0"

\* the text of /proc/net/dev on a host with the devices devs
RECURSIVE DevLines(_)
DevLines(devs) ==
    IF devs = <<>> THEN ""
    ELSE DevLine(Head(devs)) \o "\n" \o DevLines(Tail(devs))

ProcNetDev(devs) == "Inter-|   Receive\n face |bytes\n" \o DevLines(devs)

\* stdout of  cat /proc/net/dev | tail -n +3 | awk -F: '{ print $1 }'
RECURSIVE AwkFirstField(_)
AwkFirstField(ls) ==
    IF ls = <<>> THEN ""
    ELSE split(Head(ls), ":")[1] \o "\n" \o AwkFirstField(Tail(ls))

ListCommandOutput(text) ==
    LET ls == splitlines(text)
    IN  AwkFirstField(IF Len(ls) <= 2 THEN <<>> ELSE SubSeq(ls, 3, Len(ls)))

(* -------------------------------- state -------------------------------- *)
VARIABLES
    params,           \* module.params['interfaces']
    list_interfaces,  \* the list main() iterates over
    result,           \* the dict main() builds for fail_json
    values,           \* dict: interface name -> reference into heap
    heap,             \* the dicts {'current': {}, 'preset': {}} ever created
    ringparams,       \* the list of records
    exe,              \* shutil.which('ethtool')
    pc,               \* position of main()
    idx,              \* iterations of the interface loop started
    rc, stdout, stderr,   \* result of the last run_command for an interface
    lines, pos,       \* the lines being scanned, and how many are scanned
    pre, current,     \* the two section flags
    warnings,         \* the texts passed to module.warn
    calls,            \* the calls made to the host and their results, in order
    output,           \* what exit_json / fail_json hands to the caller
    devices,          \* the host's devices as /proc/net/dev listed them
    ifLimit,          \* most interfaces the run is given or the host has
    outLimit          \* most lines the host's ethtool prints per interface

vars == <<params, list_interfaces, result, values, heap, ringparams, exe, pc,
          idx, rc, stdout, stderr, lines, pos, pre, current, warnings, calls,
          output, devices, ifLimit, outLimit>>

\* the loop variable of  for interface in list_interfaces
interface == list_interfaces[idx]

\* nothing handed to the caller yet
NoOutput == [k \in {} |-> ""]

\* main() up to and including  ringparams = []
InitWith(nIfs, nLines) ==
    /\ params \in SeqsUpTo(Names, nIfs)
    /\ list_interfaces = params
    /\ result = [network_interfaces |-> params]
    /\ values = EmptyDict
    /\ heap = <<>>
    /\ ringparams = <<>>
    /\ exe = None
    /\ pc = "which"
    /\ idx = 0
    /\ rc = 0 /\ stdout = "" /\ stderr = ""
    /\ lines = <<>> /\ pos = 0
    /\ pre = FALSE /\ current = FALSE
    /\ warnings = <<>>
    /\ calls = <<>>
    /\ output = NoOutput
    /\ devices = <<>>
    /\ ifLimit = nIfs
    /\ outLimit = nLines

Init == InitWith(MaxIfs, MaxLines)

\* a run over at most one interface, whose ethtool output may be longer
InitScan == InitWith(1, MaxScanLines)

\* a run over at most two interfaces
InitPair == InitWith(2, MaxPairLines)

\* fail_json that returns to its caller instead of ending the run
FailJsonReturns(msg) ==
    /\ output' = [failed |-> TRUE, msg |-> msg,
                  network_interfaces |-> result.network_interfaces]
    /\ pc' = "resolve"

\* module.fail_json(msg=..., **result)
FailJson(msg) ==
    /\ output' = [failed |-> TRUE, msg |-> msg,
                  network_interfaces |-> result.network_interfaces]
    /\ pc' = "failed"

\* exe = shutil.which('ethtool'); if exe is None: fail_json
Which ==
    /\ pc = "which"
    /\ \E found \in WhichResults :
          /\ exe' = found
          /\ calls' = Append(calls, [op |-> "which", arg |-> "ethtool",
                                     res |-> found])
          /\ IF found = None
             THEN FailJson("Could not find ethtool executable")
             ELSE pc' = "resolve" /\ output' = output
    /\ UNCHANGED <<params, list_interfaces, result, values, heap, ringparams,
                   idx, rc, stdout, stderr, lines, pos, pre, current,
                   warnings, devices, ifLimit, outLimit>>

\* the loop with the test for 'lo' made on the line as printed
RECURSIVE ExcludeLoUnstripped(_)
ExcludeLoUnstripped(ls) ==
    IF ls = <<>> THEN <<>>
    ELSE (IF Head(ls) # "lo" THEN <<strip(Head(ls))>> ELSE <<>>)
             \o ExcludeLoUnstripped(Tail(ls))

\* the loop of get_interfaces over the command's stdout
RECURSIVE ExcludeLo(_)
ExcludeLo(ls) ==
    IF ls = <<>> THEN <<>>
    ELSE LET intf == strip(Head(ls))
         IN  (IF intf # "lo" THEN <<intf>> ELSE <<>>) \o ExcludeLo(Tail(ls))

ListCommand ==
    "/usr/bin/cat /proc/net/dev | /usr/bin/tail -n +3 | /usr/bin/awk -F: '{ print $1 }'"

\* if not list_interfaces: list_interfaces = get_interfaces(module)
GetInterfaces ==
    /\ pc = "resolve"
    /\ list_interfaces = <<>>
    /\ \E isfile \in BOOLEAN, devs \in SeqsUpTo(Names, ifLimit),
          r \in {0, 1}, err \in {"", "cat: no\n"} :
          /\ (~isfile => devs = <<>> /\ r = 0)
          /\ (r = 0 => err = "")
          /\ devices' = devs
          /\ IF ~isfile
             THEN /\ calls' = Append(calls, [op |-> "isfile",
                                             arg |-> "/proc/net/dev",
                                             res |-> FALSE])
                  /\ list_interfaces' = <<>>
                  /\ warnings' = warnings
             ELSE /\ calls' = calls \o
                          <<[op |-> "isfile", arg |-> "/proc/net/dev", res |-> TRUE],
                            [op |-> "run_command", arg |-> ListCommand, res |-> r]>>
                  /\ IF r = 0
                     THEN /\ list_interfaces' =
                               ExcludeLo(splitlines(strip(ListCommandOutput(ProcNetDev(devs)))))
                          /\ warnings' = warnings
                     ELSE /\ list_interfaces' = <<>>
                          /\ warnings' = Append(warnings,
                               "Unable to fetch list of network interfaces: "
                                   \o replace(err, "\n", "."))
    /\ pc' = "loop"
    /\ UNCHANGED <<params, result, values, heap, ringparams, exe, idx, rc,
                   stdout, stderr, lines, pos, pre, current, output, ifLimit, outLimit>>

\* an explicit list that loses its 'lo' entries like a discovered one
KeepExplicitNoLo ==
    /\ pc = "resolve"
    /\ list_interfaces # <<>>
    /\ list_interfaces' = SelectSeq(list_interfaces, LAMBDA n : n # "lo")
    /\ pc' = "loop"
    /\ UNCHANGED <<params, result, values, heap, ringparams,
                   exe, idx, rc, stdout, stderr, lines, pos, pre, current,
                   warnings, calls, output, devices, ifLimit, outLimit>>

\* if not list_interfaces: not taken
KeepExplicit ==
    /\ pc = "resolve"
    /\ list_interfaces # <<>>
    /\ pc' = "loop"
    /\ UNCHANGED <<params, list_interfaces, result, values, heap, ringparams,
                   exe, idx, rc, stdout, stderr, lines, pos, pre, current,
                   warnings, calls, output, devices, ifLimit, outLimit>>

\* the command built from the head of the list instead of the loop variable
EthtoolCommandFirst(name) == exe \o " -g " \o quote(list_interfaces[1])

\* the argument of  module.run_command(f"{exe} -g " + quote(interface))
EthtoolCommand(name) == exe \o " -g " \o quote(name)

\* a loop that is left after the first interface whose command fails
LoopDoneOnFailure == idx = Len(list_interfaces) \/ (idx > 0 /\ rc # 0)

\* the for statement has no interface left
LoopDone == idx = Len(list_interfaces)

\* for interface in list_interfaces: values[interface] = {...}; run_command
Fetch ==
    /\ pc = "loop"
    /\ ~LoopDone
    /\ idx' = idx + 1
    /\ LET name == list_interfaces[idx + 1]
       IN  /\ heap' = Append(heap, [current |-> EmptyDict, preset |-> EmptyDict])
           /\ values' = SetItem(values, name, Len(heap) + 1)
           /\ \E r \in ExitCodes, out \in Texts(outLimit) :
                 \E err \in ErrTexts(r) :
                    /\ rc' = r
                    /\ stdout' = out
                    /\ stderr' = err
                    /\ calls' = Append(calls, [op |-> "run_command",
                                               arg |-> EthtoolCommand(name),
                                               res |-> r])
    /\ pc' = "branch"
    /\ UNCHANGED <<params, list_interfaces, result, ringparams, exe, lines,
                   pos, pre, current, warnings, output, devices, ifLimit, outLimit>>

\* a failure record that reports the command's stderr as its msg
FailureRecordStderr(name, ref) ==
    [interface |-> name, supported |-> FALSE, parameters |-> ref,
     msg |-> stderr]

\* the record appended when rc != 0
FailureRecord(name, ref) ==
    [interface |-> name, supported |-> FALSE, parameters |-> ref,
     msg |-> "Failed to find ringparams"]

\* a failing ethtool command that ends the run with fail_json
RecordFailureFatal ==
    /\ pc = "branch"
    /\ rc # 0
    /\ stderr' = replace(stderr, "\n", ".")
    /\ warnings' = Append(warnings,
           "Unable to run ethtool for " \o interface \o ": " \o stderr')
    /\ FailJson("Failed to find ringparams")
    /\ UNCHANGED <<params, list_interfaces, result, values, heap, ringparams,
                   exe, idx, rc, stdout, lines, pos, pre, current, calls,
                   devices, ifLimit, outLimit>>

\* if rc != 0: warn and append the record of an unsupported interface
RecordFailure ==
    /\ pc = "branch"
    /\ rc # 0
    /\ stderr' = replace(stderr, "\n", ".")
    /\ warnings' = Append(warnings,
           "Unable to run ethtool for " \o interface \o ": " \o stderr')
    /\ ringparams' = Append(ringparams,
                            FailureRecord(interface, values[interface]))
    /\ pc' = "loop"
    /\ UNCHANGED <<params, list_interfaces, result, values, heap, exe, idx,
                   rc, stdout, lines, pos, pre, current, calls, output,
                   devices, ifLimit, outLimit>>

\* a scan that starts with the flags the previous scan left
BeginScanKeepFlags ==
    /\ pc = "branch"
    /\ ~(rc # 0)
    /\ IF rc = 0
       THEN lines' = splitlines(strip(stdout))
       ELSE lines' = <<>>
    /\ pos' = 0
    /\ pc' = "scan"
    /\ UNCHANGED <<params, list_interfaces, result, values, heap, ringparams,
                   exe, idx, rc, stdout, stderr, pre, current, warnings, calls,
                   output, devices, ifLimit, outLimit>>

\* else: pre = False; current = False; for line in stdout.strip().splitlines()
\* (preSetRX, preSetTX, currentRX, currentTX are written and never read)
BeginScan ==
    /\ pc = "branch"
    /\ ~(rc # 0)
    /\ pre' = FALSE
    /\ current' = FALSE
    /\ IF rc = 0
       THEN lines' = splitlines(strip(stdout))
       ELSE lines' = <<>>
    /\ pos' = 0
    /\ pc' = "scan"
    /\ UNCHANGED <<params, list_interfaces, result, values, heap, ringparams,
                   exe, idx, rc, stdout, stderr, warnings, calls, output,
                   devices, ifLimit, outLimit>>

\* l.split(':')[1].strip()
ValueOf(l) == strip(split(l, ":")[2])

\* the flags after the two header tests on the stripped line l
PreAfter(l, p) ==
    LET p1 == IF l = "Pre-set maximums:" THEN TRUE ELSE p
    IN  IF l = "Current hardware settings:" THEN FALSE ELSE p1

\* a current flag that the Pre-set header does not clear
CurrentAfterSticky(l, c) ==
    IF l = "Current hardware settings:" THEN TRUE ELSE c

CurrentAfter(l, c) ==
    LET c1 == IF l = "Pre-set maximums:" THEN FALSE ELSE c
    IN  IF l = "Current hardware settings:" THEN TRUE ELSE c1

\* the value stored in the current set also when no section is open
StoreKeyNoSection(l, key, c, p, v) ==
    IF startswith(l, key \o ":")
    THEN LET v1 == IF c \/ ~p
                   THEN [v EXCEPT !.current = SetItem(@, key, ValueOf(l))]
                   ELSE v
         IN  IF p THEN [v1 EXCEPT !.preset = SetItem(@, key, ValueOf(l))]
             ELSE v1
    ELSE v

\* a key that is set once and kept
StoreKeyFirstWins(l, key, c, p, v) ==
    IF startswith(l, key \o ":")
    THEN LET v1 == IF c /\ key \notin DOMAIN v.current
                   THEN [v EXCEPT !.current = SetItem(@, key, ValueOf(l))]
                   ELSE v
         IN  IF p /\ key \notin DOMAIN v.preset
             THEN [v1 EXCEPT !.preset = SetItem(@, key, ValueOf(l))]
             ELSE v1
    ELSE v

\* a value stored in both sets whichever section is open
StoreKeyBothSets(l, key, c, p, v) ==
    IF startswith(l, key \o ":") /\ (c \/ p)
    THEN [v EXCEPT !.current = SetItem(@, key, ValueOf(l)),
                   !.preset = SetItem(@, key, ValueOf(l))]
    ELSE v

\* the tests on  l.startswith(key + ':')  applied to the dicts of one interface
StoreKey(l, key, c, p, v) ==
    IF startswith(l, key \o ":")
    THEN LET v1 == IF c THEN [v EXCEPT !.current = SetItem(@, key, ValueOf(l))]
                   ELSE v
         IN  IF p THEN [v1 EXCEPT !.preset = SetItem(@, key, ValueOf(l))]
             ELSE v1
    ELSE v

\* one iteration of the loop over the lines
ScanLine ==
    /\ pc = "scan"
    /\ pos < Len(lines)
    /\ pos' = pos + 1
    /\ LET l  == strip(lines[pos + 1])
           p  == PreAfter(l, pre)
           c  == CurrentAfter(l, current)
           id == values[interface]
       IN  /\ pre' = p
           /\ current' = c
           /\ heap' = [heap EXCEPT ![id] =
                          StoreKey(l, "TX", c, p, StoreKey(l, "RX", c, p, @))]
    /\ UNCHANGED <<params, list_interfaces, result, values, ringparams, exe,
                   pc, idx, rc, stdout, stderr, lines, warnings, calls,
                   output, devices, ifLimit, outLimit>>

\* a success record that is supported only when the command printed something
SuccessRecordNeedsOutput(name, ref) ==
    [interface |-> name, supported |-> stdout # "", parameters |-> ref]

\* a success record that carries an (empty) msg
SuccessRecordMsg(name, ref) ==
    [interface |-> name, supported |-> TRUE, parameters |-> ref, msg |-> ""]

\* the record appended after the scan
SuccessRecord(name, ref) ==
    [interface |-> name, supported |-> TRUE, parameters |-> ref]

\* after the loop over the lines (the list of lines is a temporary of the
\* for statement and is gone): append the record of a supported interface
RecordSuccess ==
    /\ pc = "scan"
    /\ pos = Len(lines)
    /\ lines' = <<>>
    /\ pos' = 0
    /\ ringparams' = Append(ringparams,
                            SuccessRecord(interface, values[interface]))
    /\ pc' = "loop"
    /\ UNCHANGED <<params, list_interfaces, result, values, heap, exe, idx,
                   rc, stdout, stderr, pre, current, warnings,
                   calls, output, devices, ifLimit, outLimit>>

\* a record as exit_json serialises it: the dict it refers to, by value
Serialised(rec) == [rec EXCEPT !.parameters = heap[@]]

\* results = dict(ansible_facts=dict(ringparams=ringparams)); exit_json
ExitJson ==
    /\ pc = "loop"
    /\ LoopDone
    /\ output' = [ansible_facts |->
                     [ringparams |-> [i \in 1..Len(ringparams) |->
                                         Serialised(ringparams[i])]]]
    /\ pc' = "done"
    /\ UNCHANGED <<params, list_interfaces, result, values, heap, ringparams,
                   exe, idx, rc, stdout, stderr, lines, pos, pre, current,
                   warnings, calls, devices, ifLimit, outLimit>>

Next ==
    \/ Which
    \/ GetInterfaces
    \/ KeepExplicit
    \/ Fetch
    \/ RecordFailure
    \/ BeginScan
    \/ ScanLine
    \/ RecordSuccess
    \/ ExitJson

Spec == Init /\ [][Next]_vars

SpecScan == InitScan /\ [][Next]_vars

SpecPair == InitPair /\ [][Next]_vars

\* a run whose ethtool commands print at most one line each
InitFair == InitWith(MaxIfs, 1)

\* main is one sequential thread and every call it makes returns: a step
\* that can be taken is taken
FairSpec == InitFair /\ [][Next]_vars /\ WF_vars(Next)

TypeOK ==
    /\ pc \in {"which", "resolve", "loop", "branch", "scan", "done", "failed"}
    /\ idx \in 0..Len(list_interfaces)
    /\ pos \in 0..Len(lines)
    /\ pre \in BOOLEAN /\ current \in BOOLEAN
    /\ Len(ringparams) <= idx

(* ------------------------------- claims -------------------------------- *)
\* the ResultSet handed to the caller by exit_json
ResultSet == output.ansible_facts.ringparams

\* the calls of the ethtool command, in order
EthtoolCalls ==
    SelectSeq(calls, LAMBDA c : c.op = "run_command" /\ c.arg # ListCommand)

\* both parameter sets of the record rec are empty
BothEmpty(rec) ==
    /\ heap[rec.parameters].current = EmptyDict
    /\ heap[rec.parameters].preset = EmptyDict

\* C1: a run over a non-empty explicit list of N names that finds ethtool
\* ends with exactly N records, the i-th one for the i-th name of the list,
\* whatever the exit codes and the stdout texts were.
C1_Completeness ==
    (pc = "done" /\ params # <<>>) =>
        /\ Len(ResultSet) = Len(params)
        /\ Len(ringparams) = Len(params)
        /\ \A i \in 1..Len(params) :
              /\ ResultSet[i].interface = params[i]
              /\ ringparams[i].interface = params[i]

C1_Witness ==
    /\ pc = "done"
    /\ Len(params) = 2
    /\ params[1] # params[2]
    /\ ~ResultSet[1].supported
    /\ ResultSet[2].supported

\* C2 as stated: for every record, supported = false, msg present and both
\* parameter sets empty are equivalent.
C2_Original ==
    \A i \in 1..Len(ringparams) :
        LET r == ringparams[i]
        IN  /\ (r.supported = FALSE) <=> ("msg" \in DOMAIN r)
            /\ ("msg" \in DOMAIN r) <=> BothEmpty(r)

\* C2 as amended: for every record, supported = false exactly when msg is
\* present, and then both parameter sets are empty (a supported record may
\* have both sets empty as well).
C2_SupportFlag ==
    \A i \in 1..Len(ringparams) :
        LET r == ringparams[i]
        IN  /\ (r.supported = FALSE) <=> ("msg" \in DOMAIN r)
            /\ ("msg" \in DOMAIN r) => BothEmpty(r)

C2_Witness ==
    /\ pc = "done"
    /\ Len(ringparams) = 2
    /\ ringparams[1].supported /\ ~BothEmpty(ringparams[1])
    /\ ~ringparams[2].supported
    /\ ringparams[1].interface = ringparams[2].interface

\* C3: after a command that exits non-zero the record of that interface is
\* supported = false, current = {}, preset = {}, msg = "Failed to find
\* ringparams", whatever stdout was; and no supported record has a msg.
C3_FailureRecord ==
    /\ (pc \in {"loop", "done"} /\ idx > 0 /\ rc # 0) =>
          Serialised(ringparams[idx]) =
              [interface |-> list_interfaces[idx], supported |-> FALSE,
               parameters |-> [current |-> EmptyDict, preset |-> EmptyDict],
               msg |-> "Failed to find ringparams"]
    /\ \A i \in 1..Len(ringparams) :
          ringparams[i].supported => "msg" \notin DOMAIN ringparams[i]

C3_Witness ==
    /\ pc = "loop"
    /\ idx = 2
    /\ rc = 2
    /\ stdout = "Pre-set maximums:\nTX: 512\n"
    /\ ringparams[1].supported
    /\ ~ringparams[2].supported

\* C4: when ethtool is not found the run fails at once: the lookup is the
\* only call made (no discovery, no ethtool command), no record and no dict
\* is created and the output carries no fact data, for every input list.
C4_FailFast ==
    (exe = None /\ pc # "which") =>
        /\ pc = "failed"
        /\ Len(calls) = 1
        /\ calls[1].op = "which"
        /\ ringparams = <<>>
        /\ heap = <<>>
        /\ list_interfaces = params
        /\ output.failed
        /\ "ansible_facts" \notin DOMAIN output

C4_Witness ==
    /\ pc = "failed"
    /\ params = <<>>
    /\ exe = None

\* C5: the ethtool command is run for the interfaces of the resolved list in
\* order, one list position at a time and each exactly once; after a non-zero
\* exit code the run goes on: it can always take a step until it is done, it
\* is done only when every position has been fetched and has its record, and
\* it never fails once ethtool was found.
C5_SequentialAndComplete ==
    /\ Len(EthtoolCalls) = idx
    /\ \A i \in 1..idx :
          EthtoolCalls[i].arg = exe \o " -g " \o list_interfaces[i]
    /\ Len(ringparams) = (IF pc \in {"branch", "scan"} THEN idx - 1 ELSE idx)
    /\ \A i \in 1..Len(ringparams) :
          ringparams[i].interface = list_interfaces[i]
    /\ pc = "done" => idx = Len(list_interfaces)
    /\ pc = "failed" => exe = None
    /\ (pc = "loop" /\ idx > 0 /\ rc # 0) => ENABLED (Fetch \/ ExitJson)

C5_Witness ==
    /\ pc = "done"
    /\ Len(list_interfaces) = 2
    /\ list_interfaces[1] # list_interfaces[2]
    /\ ~ringparams[1].supported
    /\ ringparams[2].supported
    /\ Len(EthtoolCalls) = 2

\* the line is one of the two section headers
IsHeader(line) ==
    strip(line) \in {"Pre-set maximums:", "Current hardware settings:"}

\* the line starts, once trimmed, with key and a colon
IsValueLine(line, key) == startswith(strip(line), key \o ":")

\* the dicts of the interface being processed
Params == heap[values[interface]]

\* C6: a RX: or TX: line that comes before every section header is never
\* stored: while no header has been scanned both sets are empty, and every
\* value held during the scan and at its end is the value of a line with
\* that key that comes after the first header.
C6_SectionIsolation ==
    pc = "scan" =>
        LET hdrs == {j \in 1..pos : IsHeader(lines[j])}
            sets == Params
        IN  /\ hdrs = {} => sets = [current |-> EmptyDict, preset |-> EmptyDict]
            /\ \A sec \in {"current", "preset"} :
                  \A k \in DOMAIN sets[sec] :
                     \E j \in (Min(hdrs) + 1)..pos :
                        /\ IsValueLine(lines[j], k)
                        /\ sets[sec][k] = ValueOf(strip(lines[j]))

C6_Witness ==
    /\ pc = "scan"
    /\ pos = Len(lines)
    /\ lines = <<"RX:\t\t4096", "TX: 512", "Pre-set maximums:", " RX: 1:2 x">>
    /\ Params = [current |-> EmptyDict, preset |-> [k \in {"RX"} |-> "1"]]

\* the lines, each trimmed
Trimmed(ls) == [j \in 1..Len(ls) |-> strip(ls[j])]

\* the header that is in force at line j of the trimmed lines ts: the last
\* header before it
SectionAt(ts, j) ==
    LET hs == {h \in 1..(j - 1) :
                  ts[h] \in {"Pre-set maximums:", "Current hardware settings:"}}
    IN  IF hs = {} THEN "" ELSE ts[Max(hs)]

\* the lines with the key that stand in a section of the header
Hits(ts, header, key) ==
    {j \in 1..Len(ts) : startswith(ts[j], key \o ":") /\ SectionAt(ts, j) = header}

\* the parameter set of a section: for each key the value of its last line
LastWins(ts, header) ==
    [k \in {key \in {"RX", "TX"} : Hits(ts, header, key) # {}} |->
        ValueOf(ts[Max(Hits(ts, header, k))])]

\* C7: after the scan, for each section and each key, the value stored is
\* that of the last line with the key whose most recent preceding header is
\* the section's header, and the key is absent when there is no such line;
\* so a repeated header keeps the value of its final occurrence.  The record
\* appended next refers to the dicts so filled.
C7_LastWins ==
    /\ (pc = "scan" /\ pos = Len(lines)) =>
          LET ts == Trimmed(lines)
          IN  Params = [current |-> LastWins(ts, "Current hardware settings:"),
                        preset  |-> LastWins(ts, "Pre-set maximums:")]
    /\ (pc = "loop" /\ idx > 0 /\ rc = 0) =>
          ringparams[idx].parameters = values[interface]

C7_Witness ==
    /\ pc = "scan"
    /\ pos = Len(lines)
    /\ lines = <<"Current hardware settings:\t", "RX:\t\t4096",
                 "  Current hardware settings:\t", " RX: 1:2 x">>
    /\ Params.current = [k \in {"RX"} |-> "1"]

\* the trimmed rest of the line after its first colon
AfterFirstColon(l) ==
    strip(SubSeq(l, Min({i \in 1..Len(l) : Char(l, i) = ":"}) + 1, Len(l)))

\* C8 as stated: the value stored for a RX: or TX: line of an open section
\* is the whole rest of the trimmed line after its first colon, trimmed.
C8_Original ==
    (pc = "scan" /\ pos > 0) =>
        LET l == strip(lines[pos])
        IN  \A key \in {"RX", "TX"} :
               startswith(l, key \o ":") =>
                  /\ current => Params.current[key] = AfterFirstColon(l)
                  /\ pre => Params.preset[key] = AfterFirstColon(l)

\* the list command was not run because /proc/net/dev is no file, or it
\* was run and exited non-zero
DiscoveryUnavailable ==
    \E i \in 1..Len(calls) :
        \/ calls[i].op = "isfile" /\ calls[i].res = FALSE
        \/ /\ calls[i].op = "run_command"
           /\ calls[i].arg = ListCommand
           /\ calls[i].res # 0

\* the list command was run and exited with 0
DiscoveryWorked ==
    \E i \in 1..Len(calls) :
        /\ calls[i].op = "run_command"
        /\ calls[i].arg = ListCommand
        /\ calls[i].res = 0

\* C9 as stated: with an empty explicit list and a discovery source that is
\* absent or whose query fails, the resolved list is empty, a warning is
\* emitted, no ethtool command is run and the run ends with an empty
\* ResultSet.
C9_Original ==
    (params = <<>> /\ DiscoveryUnavailable) =>
        /\ list_interfaces = <<>>
        /\ warnings # <<>>
        /\ EthtoolCalls = <<>>
        /\ pc \in {"loop", "done"}
        /\ pc = "done" => Len(ResultSet) = 0

DiscoveryCalls ==
    SelectSeq(calls, LAMBDA c : c.op = "isfile" \/ c.arg = ListCommand)

\* C11: with a non-empty explicit list the list that is processed is that
\* list unchanged: the discovery source is never looked at, and every
\* position fetched so far, a repeated name or "lo" included, was fetched
\* under its own name and has its record once processed.
C11_ExplicitUnchanged ==
    params # <<>> =>
        /\ list_interfaces = params
        /\ DiscoveryCalls = <<>>
        /\ devices = <<>>
        /\ \A i \in 1..idx : EthtoolCalls[i].arg = exe \o " -g " \o params[i]
        /\ \A i \in 1..Len(ringparams) : ringparams[i].interface = params[i]
        /\ pc = "done" => Len(ringparams) = Len(params)

C11_Witness ==
    /\ pc = "done"
    /\ params = <<"lo", "lo">>
    /\ Len(ResultSet) = 2
    /\ ResultSet[1].interface = "lo"
    /\ ResultSet[2].interface = "lo"
    /\ ResultSet[1].supported

\* C12 as stated: the output of every successful run holds, next to the
\* ResultSet, the resolved interface list.
C12_Original ==
    pc = "done" =>
        /\ "ansible_facts" \in DOMAIN output
        /\ "network_interfaces" \in DOMAIN output
        /\ output.network_interfaces = list_interfaces

\* the line is a header or a RX: / TX: line
IsRecognised(line) ==
    IsHeader(line) \/ IsValueLine(line, "RX") \/ IsValueLine(line, "TX")

\* C13: whenever the ethtool command exits with 0 the record of the interface
\* is supported = true without msg, whatever stdout holds; an empty stdout,
\* or one without any recognised line, leaves both parameter sets empty, and
\* the run does not fail.
C13_ZeroExitSupported ==
    /\ (pc \in {"loop", "done"} /\ idx > 0 /\ rc = 0) =>
          LET r == ringparams[idx]
          IN  /\ r.supported = TRUE
              /\ "msg" \notin DOMAIN r
              /\ r.interface = list_interfaces[idx]
              /\ stdout = "" => BothEmpty(r)
    /\ (pc = "scan" /\ pos = Len(lines)) =>
          /\ rc = 0
          /\ (\A j \in 1..Len(lines) : ~IsRecognised(lines[j])) =>
                Params = [current |-> EmptyDict, preset |-> EmptyDict]
    /\ (pc = "failed") => exe = None

C13_Witness ==
    /\ pc = "done"
    /\ rc = 0
    /\ stdout = ""
    /\ Len(ResultSet) = 1
    /\ ResultSet[1] = [interface |-> "eno1", supported |-> TRUE,
                       parameters |-> [current |-> EmptyDict,
                                       preset |-> EmptyDict]]
    /\ warnings = <<>>

\* the warnings of the ethtool command, in order
EthtoolWarnings ==
    SelectSeq(warnings, LAMBDA w : startswith(w, "Unable to run ethtool for "))

\* d is the text e with every newline replaced by one full stop
OnOneLine(d, e) ==
    /\ Len(d) = Len(e)
    /\ \A j \in 1..Len(e) :
          Char(d, j) = (IF Char(e, j) = "\n" THEN "." ELSE Char(e, j))

\* C14: at every moment the warnings about ethtool are, in order, one for each
\* list position already recorded whose command exited non-zero, and none for
\* a position that exited 0; the warning of a position names its interface
\* and carries the command's stderr with each newline replaced by a full
\* stop; it is there when the record is, so before the next fetch.
C14_WarningPerFailure ==
    LET k       == Len(ringparams)
        failing == {i \in 1..k : EthtoolCalls[i].res # 0}
        ws      == EthtoolWarnings
    IN  /\ Len(ws) = Cardinality(failing)
        /\ \A i \in failing :
              LET w   == ws[Cardinality({j \in failing : j <= i})]
                  hdr == "Unable to run ethtool for " \o list_interfaces[i] \o ": "
              IN  /\ startswith(w, hdr)
                  /\ \E e \in ErrTexts(EthtoolCalls[i].res) :
                        OnOneLine(SubSeq(w, Len(hdr) + 1, Len(w)), e)
        /\ \A i \in 1..k : (i \in failing) <=> ~ringparams[i].supported
        /\ (pc = "loop" /\ idx > 0 /\ rc # 0) =>
              /\ idx \in failing
              /\ warnings # <<>>
              /\ startswith(warnings[Len(warnings)],
                            "Unable to run ethtool for " \o interface \o ": ")

C14_Witness ==
    /\ pc = "branch"
    /\ idx = 2
    /\ list_interfaces = <<"eno1", "lo">>
    /\ EthtoolCalls[1].res = 1
    /\ rc = 0
    /\ warnings = <<"Unable to run ethtool for eno1: no.dev.">>

\* C15: the two section flags are never both true; they are both false when
\* a scan starts and as long as it has met no header; once a header has been
\* met exactly one of them is true for the rest of the scan, namely the one
\* of the last header met.
C15_SectionFlags ==
    /\ ~(pre /\ current)
    /\ pc = "scan" =>
          LET hdrs == {j \in 1..pos : IsHeader(lines[j])}
          IN  /\ pos = 0 => (~pre /\ ~current)
              /\ hdrs = {} => (~pre /\ ~current)
              /\ hdrs # {} =>
                    /\ pre # current
                    /\ current <=>
                          strip(lines[Max(hdrs)]) = "Current hardware settings:"
                    /\ pre <=> strip(lines[Max(hdrs)]) = "Pre-set maximums:"

C15_Witness ==
    /\ pc = "scan"
    /\ idx = 2
    /\ heap[1].current # EmptyDict
    /\ pos = Len(lines)
    /\ Trimmed(lines) = <<"Current hardware settings:", "Pre-set maximums:">>
    /\ pre /\ ~current

\* the dict d without its key k
Without(d, k) == [q \in DOMAIN d \ {k} |-> d[q]]

\* the effect of scanning the line after position pos
ScanFrame ==
    LET line   == lines[pos + 1]
        id     == values[interface]
        active == IF current THEN {"current"} ELSE IF pre THEN {"preset"} ELSE {}
    IN  /\ ringparams' = ringparams
        /\ values' = values
        /\ Len(heap') = Len(heap)
        /\ \A h \in 1..Len(heap) : h # id => heap'[h] = heap[h]
        /\ ~IsRecognised(line) =>
              /\ pre' = pre
              /\ current' = current
              /\ heap' = heap
        /\ IsHeader(line) => heap' = heap
        /\ \A k \in {"RX", "TX"} :
              IsValueLine(line, k) =>
                 /\ pre' = pre
                 /\ current' = current
                 /\ \A sec \in {"current", "preset"} :
                       IF sec \in active
                       THEN /\ Without(heap'[id][sec], k) = Without(heap[id][sec], k)
                            /\ k \in DOMAIN heap'[id][sec]
                       ELSE heap'[id][sec] = heap[id][sec]

\* C16: a scanned line that is neither a header nor a RX: / TX: line leaves
\* the flags and both parameter sets as they were; a header line leaves the
\* parameter sets as they were; a RX: / TX: line leaves the flags as they
\* were and changes nothing but its own key in the set of the open section;
\* no line touches the dicts of another interface or a record.
C16_ScanFrame ==
    [][(pc = "scan" /\ pos' = pos + 1) => ScanFrame]_vars

C16_Witness ==
    /\ pc = "scan"
    /\ pos = 3
    /\ Trimmed(lines) = <<"Pre-set maximums:", "TX: 512", "RX Mini:\t7">>
    /\ pre /\ ~current
    /\ Params = [current |-> EmptyDict, preset |-> [k \in {"TX"} |-> "512"]]

\* the records appended so far stay as they are, with their dicts
RecordsKept ==
    \A i \in 1..Len(ringparams) :
        /\ Len(ringparams') >= i
        /\ ringparams'[i] = ringparams[i]
        /\ Len(heap') >= ringparams[i].parameters
        /\ heap'[ringparams[i].parameters] = heap[ringparams[i].parameters]

\* each record has dicts of its own and reports its own command's exit code
OwnRecords ==
    /\ \A i, j \in 1..Len(ringparams) :
          i # j => ringparams[i].parameters # ringparams[j].parameters
    /\ \A i \in 1..Len(ringparams) :
          /\ ringparams[i].interface = list_interfaces[i]
          /\ ringparams[i].supported = (EthtoolCalls[i].res = 0)
    /\ (pc \in {"branch", "scan"}) =>
          \A i \in 1..Len(ringparams) :
             ringparams[i].parameters # values[interface]
    /\ pc = "done" =>
          /\ Len(ResultSet) = Len(list_interfaces)
          /\ \A i \in 1..Len(ResultSet) :
                ResultSet[i] = Serialised(ringparams[i])

\* C17: every list position, also one that repeats a name, gets a record of
\* its own with dicts of its own, reporting its own command's result; and no
\* step changes a record that is already appended or the dicts it refers to,
\* so the processing of a later interface, of the same name or of another one,
\* leaves it as it was when it is handed out.
C17_RecordsImmutable ==
    [][RecordsKept /\ OwnRecords']_vars

C17_Witness ==
    /\ pc = "done"
    /\ list_interfaces = <<"eno1", "eno1">>
    /\ ResultSet[1] = [interface |-> "eno1", supported |-> TRUE,
                       parameters |-> [current |-> EmptyDict,
                                       preset |-> [k \in {"TX"} |-> "512"]]]
    /\ ResultSet[2] = [interface |-> "eno1", supported |-> TRUE,
                       parameters |-> [current |-> [k \in {"TX"} |-> "512"],
                                       preset |-> EmptyDict]]

\* the parameter sets that the text out alone determines
ParsedSets(out) ==
    LET ts == Trimmed(splitlines(strip(out)))
    IN  [current |-> LastWins(ts, "Current hardware settings:"),
         preset  |-> LastWins(ts, "Pre-set maximums:")]

\* the supported flag and the sets that an exit code and a stdout determine
OutcomeOf(r, out) ==
    [supported  |-> (r = 0),
     parameters |-> IF r = 0 THEN ParsedSets(out)
                    ELSE [current |-> EmptyDict, preset |-> EmptyDict]]

\* C18: the supported flag and the parameter sets of a record are a function
\* of the exit code and the stdout of its own command: the record appended
\* for an interface carries OutcomeOf(rc, stdout), an expression in which
\* neither the interface's name, nor its position, nor anything left by the
\* interfaces before it occurs; so two runs that agree on an interface's
\* exit code and stdout give it the same flag and the same sets.
C18_OwnResultOnly ==
    (pc = "loop" /\ idx > 0) =>
        LET rec == Serialised(ringparams[idx])
            out == OutcomeOf(rc, stdout)
        IN  /\ rec.supported = out.supported
            /\ rec.parameters = out.parameters

C18_Witness ==
    /\ pc = "loop"
    /\ idx = 2
    /\ list_interfaces = <<"eno1", "lo">>
    /\ heap[ringparams[1].parameters].current = [k \in {"RX"} |-> "4096"]
    /\ rc = 0
    /\ stdout = "RX:\t\t4096\n"
    /\ ringparams[2].supported
    /\ BothEmpty(ringparams[2])

\* the run has ended with fail_json and nothing else
FatalOutcome ==
    /\ pc = "failed"
    /\ "failed" \in DOMAIN output
    /\ "ansible_facts" \notin DOMAIN output

\* the run has ended with exit_json and the ResultSet
SuccessOutcome ==
    /\ pc = "done"
    /\ "ansible_facts" \in DOMAIN output
    /\ "failed" \notin DOMAIN output
    /\ Len(ResultSet) = Len(list_interfaces)

\* an output is there exactly when the run has ended, in one outcome; the
\* fatal one is that of the missing executable and of nothing else
OneOutcome ==
    /\ ~(FatalOutcome /\ SuccessOutcome)
    /\ (DOMAIN output # {}) <=> (FatalOutcome \/ SuccessOutcome)
    /\ pc \in {"done", "failed"} => (~ENABLED Next /\ DOMAIN output # {})
    /\ FatalOutcome =>
          /\ exe = None
          /\ output.msg = "Could not find ethtool executable"
          /\ warnings = <<>>
          /\ EthtoolCalls = <<>>
          /\ DiscoveryCalls = <<>>
    /\ SuccessOutcome => exe # None

\* C19: when every step that can be taken is taken, every run ends, and it
\* ends in exactly one of two outcomes: the failure for the missing
\* executable, or the success with the ResultSet.  Once ethtool is found the
\* run ends in the success, whatever the discovery and the ethtool commands
\* return; the failure follows the missing executable only.
C19_Termination ==
    /\ []OneOutcome
    /\ <>(FatalOutcome \/ SuccessOutcome)
    /\ (pc # "which" /\ exe # None) ~> SuccessOutcome
    /\ (pc # "which" /\ exe = None) ~> FatalOutcome

C19_Witness ==
    /\ SuccessOutcome
    /\ params = <<>>
    /\ Len(warnings) = 2
    /\ startswith(warnings[1], "Unable to run ethtool for eno1")
    /\ startswith(warnings[2], "Unable to run ethtool for eno1")
    /\ ~ResultSet[1].supported
    /\ ~ResultSet[2].supported

====
